---- MODULE Spec2Model ----
(***************************************************************************)
(* Model of the baiji gateway plugin (src/index.js): a batch document of   *)
(* named sub-calls is validated, sorted by dependencies, turned into a     *)
(* stack of stages and executed stage by stage; results are collected per  *)
(* sub-call name and returned in the order of the document.                *)
(*                                                                         *)
(* Strings that are matched against glob patterns (method names, patterns) *)
(* are sequences of one-character strings; sub-call names are one-letter   *)
(* strings compared by their place in NameOrder.                           *)
(***************************************************************************)
EXTENDS Integers, Sequences, FiniteSets, TLC

\* ------------------------------------------------------------------ bounds

\* Largest number of sub-calls in a document of the execution specification.
MaxCalls == 2
\* Largest number of sub-calls in a document of the validation specification.
MaxValCalls == 3
\* Largest number of sub-calls in a document of the planning specification.
MaxPlanCalls == 4
\* Largest number of sub-calls in a document of the shape specification.
MaxItems == 2
\* Largest number of sub-calls in a document of the two-request specification.
MaxBatchCalls == 2

\* ------------------------------------------------------- program constants

\* options.max = options.max || 50
DEFAULT_MAX == 50

\* ---------------------------------------------------------------- JS values

Undef == [t |-> "undef"]
Arr(s) == [t |-> "arr", v |-> s]
Str(s) == [t |-> "str", v |-> s]
Obj(s) == [t |-> "obj", v |-> s]

\* castToArray(val): undefined/null/falsy -> [], an array -> itself, else [val]
castToArray(val) ==
  IF val.t = "undef" THEN <<>>
  ELSE IF val.t = "arr" THEN val.v
  ELSE IF val.t = "str" /\ val.v = <<>> THEN <<>>
  ELSE <<val.v>>

\* indexOf(list, x) > -1
Includes(list, x) == \E i \in 1..Len(list) : list[i] = x

\* the elements of a sequence
Range(s) == { s[i] : i \in 1..Len(s) }

\* ------------------------------------------------------------ glob matching

\* one glob pattern against a whole string: * is any run of characters,
\* ? is one character, every other character stands for itself
RECURSIVE GlobMatch(_, _)
GlobMatch(s, p) ==
  IF p = <<>> THEN s = <<>>
  ELSE IF Head(p) = "*"
    THEN GlobMatch(s, Tail(p)) \/ (s # <<>> /\ GlobMatch(Tail(s), p))
  ELSE IF s = <<>> THEN FALSE
  ELSE (Head(p) = "?" \/ Head(p) = Head(s)) /\ GlobMatch(Tail(s), Tail(p))

MatchesAny(s, patterns) == \E i \in 1..Len(patterns) : GlobMatch(s, patterns[i])

\* mm(list, patterns): the unique elements of list that match some pattern,
\* in list order; no pattern, no match
RECURSIVE mm(_, _)
mm(list, patterns) ==
  IF list = <<>> THEN <<>>
  ELSE LET init == SubSeq(list, 1, Len(list) - 1)
           last == list[Len(list)]
           rest == mm(init, patterns)
       IN IF MatchesAny(last, patterns) /\ ~Includes(rest, last)
            THEN Append(rest, last)
            ELSE rest

\* _.difference(xs, ys)
difference(xs, ys) == SelectSeq(xs, LAMBDA x : ~Includes(ys, x))

\* ---------------------------------------------------------------- documents

\* the keys of a document in mapping form, in the order of string comparison
NameOrder == <<"a", "b", "c", "d">>
\* the keys of a document in array form: the indexes 0, 1, 2, ..., in the
\* order of number comparison
IndexOrder == <<"0", "1", "2", "3">>
Indexes == Range(IndexOrder)
\* sub-call names
Names == Range(NameOrder) \cup Indexes
\* a.name > b.name is Rank(a.name) > Rank(b.name): indexes among themselves,
\* keys among themselves
Rank(n) ==
  IF n \in Indexes
    THEN (CHOOSE i \in 1..Len(IndexOrder) : IndexOrder[i] = n) - Len(IndexOrder) - 1
    ELSE CHOOSE i \in 1..Len(NameOrder) : NameOrder[i] = n

\* a missing (or empty) method
NoMethod == <<>>

\* methods registered in the host application, in registration order
M_ax == <<"a", ".", "x">>
M_ay == <<"a", ".", "y">>
M_is == <<"i", ".", "s">>
HostMethods == <<M_ax, M_ay, M_is>>
\* a method name no host method has
M_az == <<"a", ".", "z">>

\* the keys of a document, in key order
Keys(schema) == [i \in 1..Len(schema) |-> schema[i].name]
KeySet(schema) == { schema[i].name : i \in 1..Len(schema) }
DistinctKeys(schema) ==
  \A i, j \in 1..Len(schema) : schema[i].name = schema[j].name => i = j

\* the (api, name) pairs _.map(schema, ...) iterates over: the entries of a
\* mapping under their keys, the elements of an array under their indexes
entries(body) ==
  IF body.t = "arr"
    THEN [i \in 1..Len(body.v) |->
            [name |-> IndexOrder[i], method |-> body.v[i].method,
             dependencies |-> body.v[i].dependencies]]
    ELSE body.v

\* the entry of a document under a key
Entry(schema, n) == schema[CHOOSE i \in 1..Len(schema) : schema[i].name = n]

\* ------------------------------------------------------------------ errors

NoError == [status |-> 0, message |-> "none"]
\* createError(statusCode, message)
createError(statusCode, message) == [status |-> statusCode, message |-> message]
InvalidRequestBody == createError(422, "Invalid Request Body")
MaxRequestsExceeded == createError(406, "Max Requests Exceeded")
ForbiddenRequest == createError(403, "Forbidden Request")
\* the TypeError of a call on an undefined method
TypeError == [status |-> 0, message |-> "TypeError"]

\* ---------------------------------------------------------- validateSchema

\* api.dependencies && api.dependencies.length && ~api.dependencies.indexOf(name)
DependsOnItself(api) ==
  /\ api.dependencies.t = "arr"
  /\ Len(api.dependencies.v) # 0
  /\ Includes(api.dependencies.v, api.name)

\* hasError after the loop over the document
hasError(schema) ==
  \E i \in 1..Len(schema) :
    schema[i].method = NoMethod \/ DependsOnItself(schema[i])

\* apis after the loop: the distinct api.method values, in document order
RECURSIVE apisOf(_)
apisOf(schema) ==
  IF schema = <<>> THEN <<>>
  ELSE LET rest == apisOf(SubSeq(schema, 1, Len(schema) - 1))
           m == schema[Len(schema)].method
       IN IF Includes(rest, m) THEN rest ELSE Append(rest, m)

\* the apisCount of validateSchema
apisCount(schema) == Len(apisOf(schema))

\* variant of forbidden in which a method on the allow-list is let through
\* whatever the deny-list says
forbidden_allowWins(apis, opts) ==
  IF Len(opts.allowedAPIs) # 0
    THEN Len(mm(apis, opts.allowedAPIs)) # Len(apis)
    ELSE Len(opts.forbiddenAPIs) # 0 /\ Len(mm(apis, opts.forbiddenAPIs)) # 0

\* forbidden after the two policy tests
forbidden(apis, opts) ==
  \/ Len(opts.forbiddenAPIs) # 0 /\ Len(mm(apis, opts.forbiddenAPIs)) # 0
  \/ Len(opts.allowedAPIs) # 0 /\ Len(mm(apis, opts.allowedAPIs)) # Len(apis)

\* variant of validateSchema that holds the number of sub-calls, not of
\* distinct methods, against options.max
validateSchema_countsCalls(schema, opts) ==
  IF apisCount(schema) = 0 \/ hasError(schema) THEN InvalidRequestBody
  ELSE IF Len(schema) > opts.max THEN MaxRequestsExceeded
  ELSE IF forbidden(apisOf(schema), opts) THEN ForbiddenRequest
  ELSE NoError

\* variant of validateSchema that tests the count before the structural error
validateSchema_countFirst(schema, opts) ==
  IF apisCount(schema) = 0 THEN InvalidRequestBody
  ELSE IF apisCount(schema) > opts.max THEN MaxRequestsExceeded
  ELSE IF hasError(schema) THEN InvalidRequestBody
  ELSE IF forbidden(apisOf(schema), opts) THEN ForbiddenRequest
  ELSE NoError

validateSchema(schema, opts) ==
  IF apisCount(schema) = 0 \/ hasError(schema) THEN InvalidRequestBody
  ELSE IF apisCount(schema) > opts.max THEN MaxRequestsExceeded
  ELSE IF forbidden(apisOf(schema), opts) THEN ForbiddenRequest
  ELSE NoError

\* ---------------------------------------------------- filterAllowedMethods

\* the names of the method table built at mount time
filterAllowedMethods(opts) ==
  Range(mm(difference(HostMethods, mm(HostMethods, opts.forbiddenAPIs)),
           opts.allowedAPIs))

\* -------------------------------------------------------------- executeApis

\* "Convert all api dependencies to array": { name, api } per sub-call, in key
\* order, api.dependencies normalised in place
normalize(schema) ==
  [i \in 1..Len(schema) |->
     [schema[i] EXCEPT !.dependencies = Arr(castToArray(schema[i].dependencies))]]

\* the dependencies of a normalised entry
Deps(item) == item.dependencies.v

\* the comparator of "Compare api priority by dependencies"
compare(a, b) ==
  LET a_dep == Deps(a)
      b_dep == Deps(b)
  IN IF Includes(b_dep, a.name) THEN -1
     ELSE IF Includes(a_dep, b.name) THEN 1
     ELSE IF Len(a_dep) = 0 /\ Len(b_dep) # 0 THEN -1
     ELSE IF Len(b_dep) = 0 /\ Len(a_dep) # 0 THEN 1
     ELSE IF Len(a_dep) < Len(b_dep) THEN -1
     ELSE IF Len(a_dep) > Len(b_dep) THEN 1
     ELSE IF Rank(a.name) > Rank(b.name) THEN -1
     ELSE IF Rank(a.name) < Rank(b.name) THEN 1
     ELSE 0

\* s with e put in after its first pos elements
InsertAt(s, e, pos) == SubSeq(s, 1, pos) \o <<e>> \o SubSeq(s, pos + 1, Len(s))

\* the reverse of a sequence
Reverse(s) == [i \in 1..Len(s) |-> s[Len(s) + 1 - i]]

\* Array.prototype.sort with a comparator that is not a consistent order gives
\* an implementation-defined order; the two algorithms V8 has used for short
\* arrays are modelled: the insertion sort (arrays of at most 10 elements, V8
\* before 7.0) and the binary insertion sort of TimSort (V8 from 7.0 on).

\* insertion sort: the element moves left past every element that compares
\* greater than it
RECURSIVE LinearPos(_, _, _)
LinearPos(srt, e, j) ==
  IF j = 0 THEN 0
  ELSE IF compare(srt[j], e) > 0 THEN LinearPos(srt, e, j - 1)
  ELSE j

RECURSIVE InsertionSort(_, _)
InsertionSort(srt, rest) ==
  IF rest = <<>> THEN srt
  ELSE InsertionSort(InsertAt(srt, Head(rest), LinearPos(srt, Head(rest), Len(srt))),
                     Tail(rest))

\* TimSort's CountAndMakeRun: the length of the initial run, and whether it is
\* a strictly descending one (which is then reversed)
RECURSIVE RunEnd(_, _, _)
RunEnd(s, idx, descending) ==
  IF idx > Len(s) THEN Len(s)
  ELSE LET order == compare(s[idx], s[idx - 1])
       IN IF (descending /\ order >= 0) \/ (~descending /\ order < 0)
            THEN idx - 1
            ELSE RunEnd(s, idx + 1, descending)

CountAndMakeRun(s) ==
  IF Len(s) < 2 THEN [run |-> s, rest |-> <<>>]
  ELSE LET descending == compare(s[2], s[1]) < 0
           n == RunEnd(s, 3, descending)
           run == SubSeq(s, 1, n)
       IN [run |-> IF descending THEN Reverse(run) ELSE run,
           rest |-> SubSeq(s, n + 1, Len(s))]

\* TimSort's BinaryInsertionSort: the place of the pivot by bisection
RECURSIVE BinaryPos(_, _, _, _)
BinaryPos(srt, pivot, left, right) ==
  IF left >= right THEN left
  ELSE LET mid == left + ((right - left) \div 2)
       IN IF compare(pivot, srt[mid + 1]) < 0
            THEN BinaryPos(srt, pivot, left, mid)
            ELSE BinaryPos(srt, pivot, mid + 1, right)

RECURSIVE BinaryInsertionSort(_, _)
BinaryInsertionSort(srt, rest) ==
  IF rest = <<>> THEN srt
  ELSE BinaryInsertionSort(
         InsertAt(srt, Head(rest), BinaryPos(srt, Head(rest), 0, Len(srt))),
         Tail(rest))

Engines == {"insertion", "timsort"}

\* res.sort(comparator) on the given engine
sort(res, eng) ==
  IF eng = "insertion" THEN InsertionSort(<<>>, res)
  ELSE LET r == CountAndMakeRun(res) IN BinaryInsertionSort(r.run, r.rest)

\* item.api.dependencies.map(String).join('.')
RECURSIVE join(_)
join(deps) ==
  IF deps = <<>> THEN <<>>
  ELSE IF Len(deps) = 1 THEN <<deps[1]>>
  ELSE <<deps[1], ".">> \o join(Tail(deps))

\* the order array of "Group apis by dependencies": the distinct keys, by
\* first appearance
RECURSIVE order(_)
order(res) ==
  IF res = <<>> THEN <<>>
  ELSE LET rest == order(SubSeq(res, 1, Len(res) - 1))
           key == join(Deps(res[Len(res)]))
       IN IF Includes(rest, key) THEN rest ELSE Append(rest, key)

\* the group array of "Group apis by dependencies": one array of items per key
group(res) ==
  [k \in 1..Len(order(res)) |->
     Arr(SelectSeq(res, LAMBDA item : join(Deps(item)) = order(res)[k]))]

\* _.tap(value, interceptor): the interceptor is run on the value and the
\* value itself is passed on; what the interceptor returns is dropped
tap(value, returned) == value

\* the sequence after the two taps: the first sorts the array in place, the
\* second builds group and returns it to tap
tapped(schema, eng) ==
  LET res == sort(normalize(schema), eng)
  IN tap([i \in 1..Len(res) |-> [t |-> "obj", v |-> res[i]]], group(res))

\* "Convert to executeable stack": castToArray(item), one apiInvoker per element
stackOf(schema, eng) ==
  LET items == tapped(schema, eng)
  IN [i \in 1..Len(items) |-> castToArray(items[i])]

\* ------------------------------------------------------------------- state

VARIABLES
  options,      \* the plugin options after the defaults are applied
  engine,       \* the sort algorithm of the JavaScript engine
  ctxCreate,    \* what Context.create does when handed an undefined method
  ALL_METHODS,  \* the names of the cached method table
  pc,           \* "init", "ready", "running", "done" or "fault"
  schema,       \* ctx.body of the request being handled
  plan,         \* the stack as executeApis built it (kept for the properties)
  stack,        \* the stages execStack has not shifted yet
  current,      \* the names of the stage Promise.all is waiting for
  started,      \* the names whose apiInvoker has been called
  inflight,     \* the names whose invocation has not settled yet
  result,       \* the result object of executeApis: name -> value
  writes,       \* how many times result[name] was assigned
  response,     \* what the handler answered
  error,        \* what validateSchema returned to the handler
  settledAs,    \* how the invocation of each sub-call settled
  isArray,      \* Array.isArray(ctx.body) of the request being handled
  calls,        \* how many times the apiInvoker of each sub-call was called
  other         \* the request-local state of a second request to the gateway

vars == <<options, engine, ctxCreate, ALL_METHODS, pc, schema, plan, stack,
          current, started, inflight, result, writes, response, error,
          settledAs, isArray, calls, other>>

\* ----------------------------------------------------------------- options

P_aStar == <<"a", ".", "*">>
P_aQ == <<"a", ".", "?">>
P_iStar == <<"i", ".", "*">>

\* the options object after lines 79-85: max defaults to 50, the two lists
\* are cast to arrays
applyDefaults(raw) ==
  [max |-> IF raw.max = 0 THEN DEFAULT_MAX ELSE raw.max,
   allowedAPIs |-> castToArray(raw.allowedAPIs),
   forbiddenAPIs |-> castToArray(raw.forbiddenAPIs),
   onError |-> raw.onError]

\* the options the plugin is constructed with in the execution specification
\* (max 0 stands for an option that is not given)
\* the options of the validation specification: every combination of a
\* maximum, an allow-list and a deny-list
ValOptions ==
  [max : {0, 1, 2},
   allowedAPIs : {Undef, Str(P_aStar), Arr(<<M_ax, P_iStar>>)},
   forbiddenAPIs : {Undef, Str(P_iStar)},
   onError : {FALSE}]

\* the options of the planning specification
PlanOptions ==
  { [max |-> 0, allowedAPIs |-> Str(P_aStar), forbiddenAPIs |-> Undef, onError |-> FALSE] }

ExecOptions ==
  { [max |-> 0, allowedAPIs |-> Str(P_aStar), forbiddenAPIs |-> Undef, onError |-> FALSE],
    [max |-> 0, allowedAPIs |-> Undef, forbiddenAPIs |-> Undef, onError |-> TRUE],
    [max |-> 0, allowedAPIs |-> Str(P_aStar), forbiddenAPIs |-> Undef, onError |-> TRUE],
    [max |-> 1, allowedAPIs |-> Arr(<<P_aQ>>), forbiddenAPIs |-> Str(M_az), onError |-> FALSE],
    [max |-> 1, allowedAPIs |-> Arr(<<M_ax, M_az>>), forbiddenAPIs |-> Arr(<<>>), onError |-> TRUE] }

\* -------------------------------------------------------------- documents

\* the sequences of at most k distinct keys among names
KeySeqs(names, k) ==
  { ks \in UNION { [1..n -> names] : n \in 0..k } :
      \A i, j \in 1..Len(ks) : i < j => ks[i] # ks[j] }

\* those of them that are in ascending order
AscendingKeySeqs(names, k) ==
  { ks \in KeySeqs(names, k) :
      \A i, j \in 1..Len(ks) : i < j => Rank(ks[i]) < Rank(ks[j]) }

\* the documents with the keys ks in this order, methods among methods and
\* dependencies among deps
DocsWithKeys(ks, methods, deps) ==
  { [i \in 1..Len(ks) |->
       [name |-> ks[i], method |-> f[i].method, dependencies |-> f[i].dependencies]] :
    f \in [1..Len(ks) -> [method : methods, dependencies : deps]] }

\* the documents of at most k sub-calls, in any key order
Docs(names, methods, deps, k) ==
  UNION { DocsWithKeys(ks, methods, deps) : ks \in KeySeqs(names, k) }

\* the documents of at most k sub-calls, keys in ascending order
AscendingDocs(names, methods, deps, k) ==
  UNION { DocsWithKeys(ks, methods, deps) : ks \in AscendingKeySeqs(names, k) }

FirstNames(k) == { NameOrder[i] : i \in 1..(IF k < Len(NameOrder) THEN k ELSE Len(NameOrder)) }

\* dependency lists of at most one name
ShortDeps(names) == { Arr(<<>>) } \cup { Arr(<<n>>) : n \in names }

\* the sub-calls a sub-call depends on (none for a key the document lacks)
DepSet(d, n) == IF n \in KeySet(d) THEN Range(castToArray(Entry(d, n).dependencies)) ELSE {}

RECURSIVE Closure(_, _, _)
Closure(d, S, k) ==
  IF k = 0 THEN S ELSE Closure(d, S \cup UNION { DepSet(d, m) : m \in S }, k - 1)

\* everything n depends on, directly or through other sub-calls
TransDeps(d, n) == Closure(d, DepSet(d, n), Len(d))

\* no sub-call depends on itself, directly or through others
Acyclic(d) == \A n \in KeySet(d) : n \notin TransDeps(d, n)

\* every dependency names a sub-call of the document
Closed(d) == \A n \in KeySet(d) : DepSet(d, n) \subseteq KeySet(d)

\* execution: documents in any key order, with a registered and an unregistered
\* method, dependencies of at most one other name (sub-calls of the document
\* or not, cycles included), and the one-entry documents validation rejects
ExecDocs ==
  { d \in Docs(FirstNames(MaxCalls), {M_ax, M_az}, ShortDeps(FirstNames(MaxCalls)), MaxCalls) :
      \A i \in 1..Len(d) : ~DependsOnItself(d[i]) }
  \cup Docs({"a"}, {NoMethod, M_ax}, {Undef, Arr(<<"a">>)}, 1)

\* validation: documents with keys in ascending order, every method of the
\* host or none, dependencies missing, empty or naming "a"
ValDocs ==
  AscendingDocs(FirstNames(MaxValCalls), {NoMethod, M_ax, M_ay, M_is},
                {Undef, Arr(<<>>), Arr(<<"a">>)}, MaxValCalls)

\* planning: documents in any key order whose dependencies name sub-calls of
\* the document and form no cycle
PlanDocs ==
  { d \in Docs(FirstNames(MaxPlanCalls), {M_ax}, ShortDeps(FirstNames(MaxPlanCalls)),
               MaxPlanCalls) : Closed(d) /\ Acyclic(d) }

\* the first k indexes
FirstIndexes(k) ==
  { IndexOrder[i] : i \in 1..(IF k < Len(IndexOrder) THEN k ELSE Len(IndexOrder)) }

\* the request bodies in array form of at most k elements
ArrayBodies(methods, deps, k) ==
  { Arr(items) : items \in UNION { [1..n -> [method : methods, dependencies : deps]] :
                                     n \in 0..(IF k < Len(IndexOrder) THEN k ELSE Len(IndexOrder)) } }

\* shape: bodies in array form and in mapping form, with a registered and an
\* unregistered method, dependencies missing or of at most one other sub-call
ShapeBodies ==
  ArrayBodies({M_ax, M_az}, {Undef} \cup ShortDeps(FirstIndexes(MaxItems)), MaxItems)
  \cup { Obj(d) : d \in Docs(FirstNames(MaxItems), {M_ax, M_az},
                             {Undef} \cup ShortDeps(FirstNames(MaxItems)), MaxItems) }

\* two requests: documents with keys in ascending order, two registered
\* methods and no dependencies
TwoBodies ==
  { Obj(d) : d \in AscendingDocs(FirstNames(MaxBatchCalls), {M_ax, M_ay},
                                  {Arr(<<>>)}, MaxBatchCalls) }

\* ------------------------------------------------------------------ values

\* what an invocation settles with: the result of the method, the error of
\* the method, or the TypeError of invoking an undefined method
Value(kind, item) == [kind |-> kind, method |-> item.method, call |-> item.name]

Undefined == [kind |-> "undefined", method |-> NoMethod, call |-> "none"]

NoResponse == [kind |-> "none", status |-> 0, body |-> <<>>]

\* forceOrder(res, schema): the keys of schema in order, each with res[key]
forceOrder(res, sch) ==
  [i \in 1..Len(sch) |->
     [key |-> sch[i].name,
      value |-> IF sch[i].name \in DOMAIN res THEN res[sch[i].name] ELSE Undefined]]

\* _.values(object): the values of the object in the order of its keys
values(obj) == [i \in 1..Len(obj) |-> obj[i].value]

\* variant of dataResponse without the Array.isArray test: always the mapping
dataResponse_alwaysMapping(res, sch, isArr) ==
  [kind |-> "data", status |-> 200, body |-> Obj(forceOrder(res, sch))]

\* ctx.done(data, next) after executeApis resolved: res forced into the order
\* of schema, and its values alone when schema is an array
dataResponse(res, sch, isArr) ==
  [kind |-> "data", status |-> 200,
   body |-> IF isArr THEN Arr(values(forceOrder(res, sch)))
                     ELSE Obj(forceOrder(res, sch))]

\* the answer to an error: options.onError(error, ctx, next) when configured,
\* else ctx.status(error.status); ctx.done(error, next)
errorResponse(err, opts) ==
  IF opts.onError
    THEN [kind |-> "onError", status |-> 0, body |-> err]
    ELSE [kind |-> "error", status |-> err.status, body |-> err]

\* ---------------------------------------------------------------- execStack

\* ALL_METHODS[name] is undefined
Unknown(item, table) == item.method \notin table

\* the place in the stage at which next.map(fn => fn()) throws (0: nowhere):
\* the first sub-call with an undefined method, when Context.create throws on it
ThrowAt(next, table, create) ==
  IF create = "throws" /\ \E i \in 1..Len(next) : Unknown(next[i], table)
    THEN CHOOSE i \in 1..Len(next) :
           /\ Unknown(next[i], table)
           /\ \A j \in 1..(i - 1) : ~Unknown(next[j], table)
    ELSE 0

\* the names whose apiInvoker is called by next.map(fn => fn())
Invoked(next, table, create) ==
  LET t == ThrowAt(next, table, create)
  IN { next[i].name : i \in 1..(IF t = 0 THEN Len(next) ELSE t - 1) }

\* variant of execStack that reads the next stage without shifting it
execStack_noShift(stk, table, create) ==
  [throws |-> ThrowAt(Head(stk), table, create) # 0,
   invoked |-> Invoked(Head(stk), table, create),
   current |-> { Head(stk)[i].name : i \in 1..Len(Head(stk)) },
   rest |-> stk]

\* one call of execStack(stk) with a non-empty stack: shift the next stage and
\* call every apiInvoker of it
execStack(stk, table, create) ==
  [throws |-> ThrowAt(Head(stk), table, create) # 0,
   invoked |-> Invoked(Head(stk), table, create),
   current |-> { Head(stk)[i].name : i \in 1..Len(Head(stk)) },
   rest |-> Tail(stk)]

\* variant of allSettled for promise.then(execStack(stack)): the next stage
\* is run without waiting
allSettled_eager(stage, pending) == TRUE

\* Promise.all(next.map(fn => fn())) has resolved: every invocation of the
\* stage has settled
allSettled(stage, pending) == stage \cap pending = {}

\* variant of store for an apiInvoker without its catch: an error is not stored
store_dropsErrors(res, n, v) ==
  IF v.kind = "result"
    THEN [k \in DOMAIN res \cup {n} |-> IF k = n THEN v ELSE res[k]]
    ELSE res

\* result[i.name] = res in the then callback, result[i.name] = err in the catch
store(res, n, v) == [k \in DOMAIN res \cup {n} |-> IF k = n THEN v ELSE res[k]]

\* ----------------------------------------------------------------- actions

\* the plugin is constructed; the application is not mounted yet
InitWith(optionSet, engines, creates) ==
  /\ options \in { applyDefaults(raw) : raw \in optionSet }
  /\ engine \in engines
  /\ ctxCreate \in creates
  /\ ALL_METHODS = {}
  /\ pc = "init"
  /\ schema = <<>>
  /\ plan = <<>>
  /\ stack = <<>>
  /\ current = {}
  /\ started = {}
  /\ inflight = {}
  /\ result = <<>>
  /\ writes = [n \in Names |-> 0]
  /\ response = NoResponse
  /\ error = NoError
  /\ settledAs = [n \in Names |-> "pending"]
  /\ isArray = FALSE
  /\ calls = [n \in Names |-> 0]
  /\ other = [id |-> 2, pc |-> "init", schema |-> <<>>, plan |-> <<>>,
              stack |-> <<>>, current |-> {}, started |-> {}, inflight |-> {},
              result |-> <<>>, writes |-> [n \in Names |-> 0],
              response |-> NoResponse, error |-> NoError,
              settledAs |-> [n \in Names |-> "pending"], isArray |-> FALSE,
              calls |-> [n \in Names |-> 0]]

Creates == {"throws", "rejects"}

Init == InitWith(ExecOptions, Engines, Creates)

\* app.on('mount'): the method table is filtered and the gateway method defined
Mount ==
  /\ pc = "init"
  /\ ALL_METHODS' = filterAllowedMethods(options)
  /\ pc' = "ready"
  /\ other' = [other EXCEPT !.pc = "ready"]
  /\ UNCHANGED <<options, engine, ctxCreate, schema, plan, stack, current,
                 started, inflight, result, writes, response, error, settledAs,
                 isArray, calls>>

\* the calls counted after the apiInvokers of the names in invoked were called
called(cnt, invoked) == [n \in Names |-> IF n \in invoked THEN cnt[n] + 1 ELSE cnt[n]]

\* variant of Handle without the else: the error is answered and the
\* document is executed all the same
Handle_fallsThrough(body) ==
  /\ pc = "ready"
  /\ error' = validateSchema(entries(body), options)
  /\ isArray' = (body.t = "arr")
  /\ LET doc == entries(body)
         stk == stackOf(doc, engine)
         ex == execStack(stk, ALL_METHODS, ctxCreate)
     IN IF doc = <<>>
          THEN /\ schema' = doc
               /\ response' = errorResponse(error', options)
               /\ pc' = "done"
               /\ UNCHANGED <<plan, stack, current, started, inflight, calls>>
          ELSE /\ schema' = normalize(doc)
               /\ plan' = stk
               /\ stack' = ex.rest
               /\ current' = ex.current
               /\ started' = ex.invoked
               /\ inflight' = ex.invoked
               /\ calls' = called(calls, ex.invoked)
               /\ pc' = IF ex.throws THEN "fault" ELSE "running"
               /\ response' = IF error' # NoError THEN errorResponse(error', options)
                              ELSE NoResponse
  /\ UNCHANGED <<options, engine, ctxCreate, ALL_METHODS, result, writes, settledAs,
                 other>>

\* the gateway method is called with ctx.body = body: validateSchema, then
\* either the error answer or executeApis up to the first call of execStack
Handle(body) ==
  /\ pc = "ready"
  /\ error' = validateSchema(entries(body), options)
  /\ isArray' = (body.t = "arr")
  /\ LET doc == entries(body)
         stk == stackOf(doc, engine)
         ex == execStack(stk, ALL_METHODS, ctxCreate)
     IN IF error' # NoError
          THEN /\ schema' = doc
               /\ response' = errorResponse(error', options)
               /\ pc' = "done"
               /\ UNCHANGED <<plan, stack, current, started, inflight, calls>>
          ELSE /\ schema' = normalize(doc)
               /\ plan' = stk
               /\ stack' = ex.rest
               /\ current' = ex.current
               /\ started' = ex.invoked
               /\ inflight' = ex.invoked
               /\ calls' = called(calls, ex.invoked)
               /\ pc' = IF ex.throws THEN "fault" ELSE "running"
               /\ response' = NoResponse
  /\ UNCHANGED <<options, engine, ctxCreate, ALL_METHODS, result, writes, settledAs,
                 other>>

\* the invocation of sub-call n settles and the then/catch callback of its
\* apiInvoker stores the value or the error under its name
Settle(n, kind) ==
  /\ n \in inflight
  /\ LET item == Entry(schema, n)
         how == IF Unknown(item, ALL_METHODS) THEN "TypeError" ELSE kind
     IN /\ settledAs' = [settledAs EXCEPT ![n] = how]
        /\ result' = store(result, n, Value(how, item))
  /\ writes' = [writes EXCEPT ![n] = @ + 1]
  /\ inflight' = inflight \ {n}
  /\ UNCHANGED <<options, engine, ctxCreate, ALL_METHODS, pc, schema, plan, stack,
                 current, started, response, error, isArray, calls, other>>

\* Promise.all of the current stage resolved: execStack(stack) runs the next
\* stage, or resolves with result and the handler answers; an apiInvoker that
\* throws here rejects the chain, which the handler's catch answers
Advance ==
  /\ pc = "running"
  /\ allSettled(current, inflight)
  /\ IF stack = <<>>
       THEN /\ response' = dataResponse(result, schema, isArray)
            /\ pc' = "done"
            /\ UNCHANGED <<stack, current, started, inflight, calls>>
       ELSE LET ex == execStack(stack, ALL_METHODS, ctxCreate)
            IN /\ stack' = ex.rest
               /\ current' = ex.current
               /\ started' = started \cup ex.invoked
               /\ inflight' = inflight \cup ex.invoked
               /\ calls' = called(calls, ex.invoked)
               /\ IF ex.throws
                    THEN /\ response' = errorResponse(TypeError, options)
                         /\ pc' = "done"
                    ELSE /\ pc' = "running"
                         /\ UNCHANGED response
  /\ UNCHANGED <<options, engine, ctxCreate, ALL_METHODS, schema, plan, result, writes,
                 error, settledAs, isArray, other>>

\* the state local to the handler call that is running
Front ==
  [id |-> 3 - other.id, pc |-> pc, schema |-> schema, plan |-> plan,
   stack |-> stack, current |-> current, started |-> started,
   inflight |-> inflight, result |-> result, writes |-> writes,
   response |-> response, error |-> error, settledAs |-> settledAs,
   isArray |-> isArray, calls |-> calls]

\* variant of Switch for a result object declared next to ALL_METHODS, in the
\* scope of the plugin: the two requests write into the same object
Switch_sharedResult ==
  /\ pc # "init"
  /\ other' = Front
  /\ pc' = other.pc
  /\ schema' = other.schema
  /\ plan' = other.plan
  /\ stack' = other.stack
  /\ current' = other.current
  /\ started' = other.started
  /\ inflight' = other.inflight
  /\ result' = result
  /\ writes' = other.writes
  /\ response' = other.response
  /\ error' = other.error
  /\ settledAs' = other.settledAs
  /\ isArray' = other.isArray
  /\ calls' = other.calls
  /\ UNCHANGED <<options, engine, ctxCreate, ALL_METHODS>>

\* the event loop turns to the other of two requests the gateway is handling:
\* the state local to the handler call that ran so far is set aside and the
\* state local to the other call is taken up; options and ALL_METHODS are
\* the plugin's and stay
Switch ==
  /\ pc # "init"
  /\ other' = Front
  /\ pc' = other.pc
  /\ schema' = other.schema
  /\ plan' = other.plan
  /\ stack' = other.stack
  /\ current' = other.current
  /\ started' = other.started
  /\ inflight' = other.inflight
  /\ result' = other.result
  /\ writes' = other.writes
  /\ response' = other.response
  /\ error' = other.error
  /\ settledAs' = other.settledAs
  /\ isArray' = other.isArray
  /\ calls' = other.calls
  /\ UNCHANGED <<options, engine, ctxCreate, ALL_METHODS>>

Next ==
  \/ Mount
  \/ (pc = "ready" /\ \E doc \in ExecDocs : Handle(Obj(doc)))
  \/ \E n \in Names, kind \in {"result", "error"} : Settle(n, kind)
  \/ Advance

Spec == Init /\ [][Next]_vars

\* validation alone: every option set, the handler applied to one document
InitValidate == InitWith(ValOptions, {"timsort"}, {"rejects"})

NextValidate ==
  \/ Mount
  \/ (pc = "ready" /\ \E doc \in ValDocs : Handle(Obj(doc)))

SpecValidate == InitValidate /\ [][NextValidate]_vars

\* planning alone: the handler applied to one document on either engine
InitPlan == InitWith(PlanOptions, Engines, {"rejects"})

NextPlan ==
  \/ Mount
  \/ (pc = "ready" /\ \E doc \in PlanDocs : Handle(Obj(doc)))

SpecPlan == InitPlan /\ [][NextPlan]_vars

\* order: the documents of the planning specification, executed (every
\* method of them is in the table, so Context.create is never handed an
\* undefined method)
InitOrder == InitWith(PlanOptions, Engines, {"rejects"})

NextOrder ==
  \/ Mount
  \/ (pc = "ready" /\ \E doc \in PlanDocs : Handle(Obj(doc)))
  \/ \E n \in Names, kind \in {"result", "error"} : Settle(n, kind)
  \/ Advance

SpecOrder == InitOrder /\ [][NextOrder]_vars

\* two requests handled by the same mounted gateway, their steps interleaved
\* (every method of the documents is in the table)
InitTwo == InitWith(PlanOptions, Engines, {"rejects"})

NextTwo ==
  \/ Mount
  \/ (pc = "ready" /\ \E body \in TwoBodies : Handle(body))
  \/ \E n \in Names, kind \in {"result", "error"} : Settle(n, kind)
  \/ Advance
  \/ Switch

SpecTwo == InitTwo /\ [][NextTwo]_vars

\* shape alone: bodies in array form and in mapping form
InitShape == InitWith(PlanOptions, Engines, Creates)

NextShape ==
  \/ Mount
  \/ (pc = "ready" /\ \E body \in ShapeBodies : Handle(body))
  \/ \E n \in Names, kind \in {"result", "error"} : Settle(n, kind)
  \/ Advance

SpecShape == InitShape /\ [][NextShape]_vars

\* -------------------------------------------------------------- properties

\* the handler has been called with a document
Handled == pc \in {"running", "done", "fault"}

\* the document passed validateSchema and was handed to executeApis
Admitted == Handled /\ error = NoError

\* the stage of the plan that holds sub-call n (0: none)
StageOf(p, n) ==
  IF \E i \in 1..Len(p) : \E j \in 1..Len(p[i]) : p[i][j].name = n
    THEN CHOOSE i \in 1..Len(p) : \E j \in 1..Len(p[i]) : p[i][j].name = n
    ELSE 0

\* every sub-call has a method and none lists its own name
StructurallyValid(d) ==
  \A i \in 1..Len(d) :
    d[i].method # NoMethod /\ d[i].name \notin Range(castToArray(d[i].dependencies))

\* every sub-call names a method of the method table
AllKnown == \A i \in 1..Len(schema) : schema[i].method \in ALL_METHODS

\* C1: in the plan of every admitted document, every dependency of every
\* sub-call lies in a strictly earlier stage than the sub-call. Does not hold
\* of the code, even on documents whose dependencies are acyclic and name only
\* sub-calls of the document: the comparator is not a consistent order and
\* sort can leave a sub-call before its dependency.
C1_DepsInEarlierStage ==
  Admitted =>
    \A s \in KeySet(schema) : \A d \in DepSet(schema, s) :
      StageOf(plan, d) >= 1 /\ StageOf(plan, d) < StageOf(plan, s)

\* C2: no key of the result object is ever assigned twice, and when
\* executeApis has resolved (the handler answered with the data) the keys of
\* result are exactly the sub-call names, each assigned exactly once, whether
\* the invocation succeeded or failed.
C2_ResultWrittenOncePerKey ==
  /\ \A n \in Names : writes[n] <= 1
  /\ response.kind = "data" =>
       /\ DOMAIN result = KeySet(schema)
       /\ \A n \in Names : writes[n] = (IF n \in KeySet(schema) THEN 1 ELSE 0)

\* a batch of two or more sub-calls answered with data, one invocation having
\* failed and one having succeeded
C2_Witness ==
  /\ response.kind = "data"
  /\ Len(schema) >= 2
  /\ \E m, n \in KeySet(schema) : settledAs[m] = "error" /\ settledAs[n] = "result"

\* exactly one invocation failed and every other one succeeded
ExactlyOneFailed ==
  \E f \in KeySet(schema) :
    /\ settledAs[f] = "error"
    /\ \A n \in KeySet(schema) \ {f} : settledAs[n] = "result"

C4_StageBarrier ==
  \A m \in started : \A n \in KeySet(schema) :
    (StageOf(plan, n) >= 1 /\ StageOf(plan, n) < StageOf(plan, m)) =>
      (n \in started /\ n \notin inflight)

\* a sub-call of a later stage is in flight after a failure in an earlier stage
C4_Witness ==
  \E m \in inflight : \E n \in KeySet(schema) :
    /\ StageOf(plan, n) >= 1
    /\ StageOf(plan, n) < StageOf(plan, m)
    /\ settledAs[n] = "error"

\* C5: in the plan handed to execStack two sub-calls are in the same stage
\* exactly when their dependency sets are equal. Does not hold of the code:
\* tap drops the groups, every stage holds one sub-call.
C5_SameStageIffSameDeps ==
  Admitted =>
    \A m, n \in KeySet(schema) :
      (StageOf(plan, m) = StageOf(plan, n)) <=> (DepSet(schema, m) = DepSet(schema, n))

\* C6: for an admitted document of two or more sub-calls that all have empty
\* dependencies (and methods of the table), every invocation has been started
\* by the time the first one settles. Does not hold of the code: the stages
\* of one sub-call each run one after the other.
C6_StageRunsConcurrently ==
  ( /\ Admitted /\ AllKnown
    /\ Len(schema) >= 2
    /\ \A n \in KeySet(schema) : DepSet(schema, n) = {}
    /\ \E n \in KeySet(schema) : settledAs[n] # "pending" )
  => started = KeySet(schema)

\* C7: when validateSchema returned InvalidRequestBody, MaxRequestsExceeded or
\* ForbiddenRequest, no sub-call has been invoked and nothing has been stored,
\* and the request has ended with the error alone: handed to options.onError
\* when that is configured, answered with its status otherwise.
C7_BatchErrorsShortCircuit ==
  error \in {InvalidRequestBody, MaxRequestsExceeded, ForbiddenRequest} =>
    /\ started = {} /\ inflight = {}
    /\ result = <<>>
    /\ \A n \in Names : writes[n] = 0 /\ settledAs[n] = "pending"
    /\ pc = "done"
    /\ response.body = error
    /\ response.kind = (IF options.onError THEN "onError" ELSE "error")
    /\ ~options.onError => response.status = error.status

\* a document of two sub-calls rejected for its count, the error handed to
\* the custom handler
C7_Witness ==
  /\ error = MaxRequestsExceeded
  /\ response.kind = "onError"
  /\ Len(schema) >= 2

\* C8: every structurally valid document with more sub-calls than
\* options.max is rejected with MaxRequestsExceeded. Does not hold of the
\* code: apisCount counts the distinct methods, not the sub-calls.
C8_OverMaxRejected ==
  (Handled /\ schema # <<>> /\ StructurallyValid(schema) /\ Len(schema) > options.max)
    => error = MaxRequestsExceeded

\* C9: a document that is empty, or has a sub-call without a method, or has a
\* sub-call that lists its own name, is rejected with InvalidRequestBody,
\* whatever its size and whatever the allow and deny lists.
C9_StructuralErrorFirst ==
  (Handled /\ (schema = <<>> \/ ~StructurallyValid(schema)))
    => error = InvalidRequestBody

\* a structurally invalid document that also names more distinct methods
\* than options.max, one of them on the deny-list
C9_Witness ==
  /\ Handled
  /\ ~StructurallyValid(schema)
  /\ Cardinality({ schema[i].method : i \in 1..Len(schema) } \ {NoMethod}) > options.max
  /\ \E i \in 1..Len(schema) : MatchesAny(schema[i].method, options.forbiddenAPIs)
  /\ error = InvalidRequestBody

\* some method of the document is on the deny-list, or the allow-list is not
\* empty and some method of the document is not on it
AgainstPolicy(d, opts) ==
  \/ \E i \in 1..Len(d) : MatchesAny(d[i].method, opts.forbiddenAPIs)
  \/ /\ Len(opts.allowedAPIs) # 0
     /\ \E i \in 1..Len(d) : ~MatchesAny(d[i].method, opts.allowedAPIs)

\* C10: a structurally valid document within the maximum that names a method
\* on the deny-list, or a method off a non-empty allow-list, is rejected with
\* ForbiddenRequest; a method on both lists is forbidden, and a method on the
\* deny-list is forbidden when there is no allow-list.
C10_PolicyForbids ==
  ( /\ Handled /\ schema # <<>> /\ StructurallyValid(schema)
    /\ Len(schema) <= options.max
    /\ AgainstPolicy(schema, options) )
  => error = ForbiddenRequest

\* a document rejected although every method of it is on the allow-list: one
\* is on the deny-list as well
C10_Witness ==
  /\ Handled /\ schema # <<>> /\ StructurallyValid(schema)
  /\ Len(schema) <= options.max
  /\ \A i \in 1..Len(schema) : MatchesAny(schema[i].method, options.allowedAPIs)
  /\ \E i \in 1..Len(schema) : MatchesAny(schema[i].method, options.forbiddenAPIs)
  /\ error = ForbiddenRequest

\* the number of distinct methods the document names
DistinctMethods(d) == Cardinality({ d[i].method : i \in 1..Len(d) })

\* every sub-call has a method and does not list its own name, the distinct
\* methods are no more than options.max and none is against the policy
ValidDocument(d, opts) ==
  /\ StructurallyValid(d)
  /\ DistinctMethods(d) <= opts.max
  /\ ~AgainstPolicy(d, opts)

SettledValue(i) ==
  [kind |-> settledAs[schema[i].name], method |-> schema[i].method,
   call |-> schema[i].name]

\* C12: an admitted batch whose sub-calls all resolve to methods is answered
\* with the data, and whenever a batch is answered with the data, in whatever
\* order the invocations settled: for a body in mapping form the answer is a
\* mapping whose keys are the keys of the body in the order of the body, each
\* with what the invocation of that sub-call settled with; for a body in
\* array form the answer is an array of the length of the body whose i-th
\* element is what the invocation of the i-th sub-call settled with.
C12_ShapeAndOrder ==
  /\ (Admitted /\ AllKnown /\ pc = "done") => response.kind = "data"
  /\ response.kind = "data" =>
       /\ response.body.t = (IF isArray THEN "arr" ELSE "obj")
       /\ Len(response.body.v) = Len(schema)
       /\ \A i \in 1..Len(schema) :
            IF isArray
              THEN response.body.v[i] = SettledValue(i)
              ELSE response.body.v[i] = [key |-> schema[i].name, value |-> SettledValue(i)]

\* a body in array form of two or more sub-calls answered with the data, the
\* first element having been invoked last and one invocation having failed
C12_Witness ==
  /\ response.kind = "data"
  /\ isArray
  /\ Len(schema) >= 2
  /\ plan[Len(plan)][1].name = IndexOrder[1]
  /\ \E n \in KeySet(schema) : settledAs[n] = "error"

\* a document of the one sub-call "a" naming method m
OneCall(m) == <<[name |-> "a", method |-> m, dependencies |-> Undef]>>

\* C13: once the gateway is mounted, a registered method is in the method
\* table exactly when a sub-call naming it passes validateSchema; with an
\* empty allow-list every registered method that matches no deny pattern is
\* in the table, and a sub-call of an admitted document that names such a
\* method is resolved and invoked: no fault, no TypeError of an undefined
\* method, and what it returns is stored under its name. Does not hold of
\* the code: with an empty allow-list filterAllowedMethods keeps no method
\* (mm with no pattern matches nothing), while validateSchema skips the
\* allow-list test.
C13_EmptyAllowListAllowsAll ==
  /\ pc # "init" =>
       \A i \in 1..Len(HostMethods) :
         /\ (HostMethods[i] \in ALL_METHODS)
              <=> (validateSchema(OneCall(HostMethods[i]), options) = NoError)
         /\ (Len(options.allowedAPIs) = 0
              /\ ~MatchesAny(HostMethods[i], options.forbiddenAPIs))
              => HostMethods[i] \in ALL_METHODS
  /\ (Admitted /\ Len(options.allowedAPIs) = 0) =>
       \A n \in KeySet(schema) :
         Entry(schema, n).method \in Range(HostMethods) =>
           /\ pc # "fault"
           /\ settledAs[n] # "TypeError"
           /\ settledAs[n] = "result" => result[n] = Value("result", Entry(schema, n))

\* the errors validateSchema returns
BatchErrors == {InvalidRequestBody, MaxRequestsExceeded, ForbiddenRequest}

\* C14: with options.onError configured, every error validateSchema returns
\* is handed to options.onError and not answered with its status, and
\* nothing but these errors is ever handed to options.onError: the failure of
\* the invocation of a sub-call never is. Does not hold of the code: the
\* TypeError of a sub-call of a later stage whose method is undefined rejects
\* the chain of execStack and the catch of the handler hands it to
\* options.onError.
C14_HandlerRouting ==
  /\ (options.onError /\ error \in BatchErrors) =>
       (response.kind = "onError" /\ response.body = error)
  /\ response.kind = "onError" => response.body \in BatchErrors

\* C15: for an admitted document in mapping form whose dependencies name
\* sub-calls of the document and form no cycle, whenever the invocation of a
\* sub-call has been started, the invocation of each of its dependencies has
\* been started and has settled. Does not hold of the code: sort can leave a
\* sub-call before its dependency, and the stages run in the order of sort.
C15_DependenciesSettleFirst ==
  (Admitted /\ ~isArray /\ Closed(schema) /\ Acyclic(schema)) =>
    \A m \in started : \A d \in DepSet(schema, m) :
      d \in started /\ settledAs[d] # "pending"

\* the places of the plan that hold sub-call n
PlacesOf(p, n) ==
  { <<i, j>> \in (1..Len(p)) \X (1..Len(schema)) : j <= Len(p[i]) /\ p[i][j].name = n }

\* the handler call is over: it answered or threw
Over == pc \in {"done", "fault"}

\* C16: in an admitted batch every sub-call is at exactly one place of the
\* plan, no apiInvoker is ever called twice (a failed sub-call is not tried
\* again), none is called for a name the document lacks, and when the batch
\* is over every sub-call has been invoked exactly once, whatever failed
\* before it. Does not hold of the code: when an apiInvoker throws on an
\* undefined method, the sub-calls after it are never invoked.
C16_ExactlyOneInvocation ==
  Admitted =>
    /\ \A n \in KeySet(schema) : Cardinality(PlacesOf(plan, n)) = 1
    /\ \A n \in Names : calls[n] <= 1 /\ (n \notin KeySet(schema) => calls[n] = 0)
    /\ started = { n \in Names : calls[n] = 1 }
    /\ Over => \A n \in KeySet(schema) : calls[n] = 1

\* the handler has answered the request
Answered == pc = "done" /\ response # NoResponse

\* C17: an admitted batch that has not been answered yet is never stuck:
\* either an invocation that was issued has not settled yet, or execStack can
\* take its next step (the next stage, or the answer); so the batch is
\* answered once every issued invocation has settled, also when the
\* dependencies of the document form a cycle or name no sub-call. Does not
\* hold of the code: when the first apiInvoker throws on an undefined method
\* the handler call ends without an answer and with nothing in flight.
C17_NeverStuck ==
  Admitted => (Answered \/ inflight # {} \/ ENABLED Advance)

\* the invocation of sub-call n was issued and has settled
Settled(n) == n \in started /\ n \notin inflight

\* C18: in an admitted batch a sub-call whose method the method table lacks
\* is a per-call error: the handler throws nothing and answers no error;
\* once the sub-call has settled, its name holds the TypeError in result;
\* and when the batch is over it has been answered with the data, every
\* sub-call recorded under its name. Does not hold of the code: the
\* apiInvoker hands the undefined method to Context.create outside any
\* promise, and where that throws, the TypeError leaves the handler (first
\* stage) or becomes the error answer of the batch (later stage).
C18_UnknownMethodIsPerCallError ==
  Admitted =>
    /\ pc # "fault"
    /\ response.kind \in {"none", "data"}
    /\ \A n \in KeySet(schema) :
         (Unknown(Entry(schema, n), ALL_METHODS) /\ Settled(n)) =>
           result[n] = Value("TypeError", Entry(schema, n))
    /\ Over => (response.kind = "data" /\ DOMAIN result = KeySet(schema))

\* C19: a document in which some sub-call lists a dependency that is no
\* sub-call of the document is rejected with InvalidRequestBody and none of
\* its sub-calls is invoked. Does not hold of the code: validateSchema looks
\* at a dependency list only for the sub-call's own name, and the document
\* is executed with the dangling name ignored.
C19_DanglingDependencyRejected ==
  (Handled /\ ~Closed(schema)) =>
    /\ error = InvalidRequestBody
    /\ started = {}
    /\ \A n \in Names : calls[n] = 0

\* what the invocation of the i-th sub-call of request r settled with
SettledValueOf(r, i) ==
  [kind |-> r.settledAs[r.schema[i].name], method |-> r.schema[i].method,
   call |-> r.schema[i].name]

\* request r holds and answers nothing but its own: result has only names of
\* its document, each with what its own invocation settled with, and a data
\* answer holds exactly the names of its document with these values
OwnOnly(r) ==
  /\ DOMAIN r.result \subseteq KeySet(r.schema)
  /\ \A i \in 1..Len(r.schema) :
       r.schema[i].name \in DOMAIN r.result =>
         r.result[r.schema[i].name] = SettledValueOf(r, i)
  /\ r.response.kind = "data" =>
       /\ Len(r.response.body.v) = Len(r.schema)
       /\ \A i \in 1..Len(r.schema) :
            r.response.body.v[i] =
              (IF r.isArray THEN SettledValueOf(r, i)
               ELSE [key |-> r.schema[i].name, value |-> SettledValueOf(r, i)])

\* C20: with two requests in the same mounted gateway, their steps
\* interleaved in any order, each request holds and answers exactly its own
\* sub-call names with what its own invocations settled with, the method
\* table is the one mount built from the options, and no step of a request
\* changes the options or the method table.
C20_NoCrossRequestState ==
  /\ [](OwnOnly(Front) /\ OwnOnly(other))
  /\ [](pc # "init" => ALL_METHODS = filterAllowedMethods(options))
  /\ [][pc # "init" => (options' = options /\ ALL_METHODS' = ALL_METHODS)]_vars

\* one request has been answered with the data while an invocation of the
\* other is in flight, and a sub-call name of both has settled differently
\* in the two
C20_Witness ==
  /\ response.kind = "data"
  /\ other.inflight # {}
  /\ \E n \in KeySet(schema) \cap KeySet(other.schema) :
       /\ other.settledAs[n] # "pending"
       /\ other.settledAs[n] # settledAs[n]

====
